---- MODULE Spec2Model ----
(***************************************************************************)
(* State-machine model of sayna_client.SaynaClient (python-sdk): the       *)
(* WebSocket session lifecycle (connect / disconnect), the ready gate of   *)
(* the send operations, the receive loop and its dispatch to registered    *)
(* callbacks.  Coroutines are modelled at the granularity of asyncio: a    *)
(* step runs from one suspension point (an await that can yield to the     *)
(* event loop) to the next, so steps of different coroutines interleave    *)
(* only there.                                                             *)
(***************************************************************************)
EXTENDS Integers, Sequences, FiniteSets, TLC

\* Python's None, for every optional attribute and field.
None == "None"

\* ---------------------------------------------------------------- bounds
\* host calls of connect / disconnect over the client's life; each session
\* is created by one of them
MaxCalls == 3
\* host calls of send_speak / send_clear / send_message / send_audio
MaxSends == 1
\* inbound frames consumed by the receive loops over the client's life
MaxFrames == 2
\* callback slots the host fills
MaxHandlers == 2
\* characters of a WebSocket URL after its scheme
MaxUrlTail == 5

\* ---------------------------------------------------------------- processes
\* Host coroutines that call the client's API concurrently.
HostTasks == {"h1", "h2"}
\* The callers of the client's API: the host coroutines, and "cb", a
\* coroutine handler that calls the API from inside the receive task.
Callers == HostTasks \cup {"cb"}
\* asyncio tasks running _receive_loop; a task carries the id of the session
\* whose connect() created it.
TaskIds == 1..MaxCalls

VARIABLES
    connected,      \* self._connected
    ready,          \* self._ready
    ws,             \* self._ws: id of the WebSocket held, 0 for None
    session,        \* self._session: id of the aiohttp session held, 0 for None
    receive_task,   \* self._receive_task: id of the task held, 0 for None
    fields,         \* the four attributes filled from the ready message
    cb,             \* the callback slots self._on_*
    lastReg,        \* the last register_on_* call made: its slot and handler
    hpc,            \* host coroutine -> suspension point
    hloc,           \* host coroutine -> locals of the call in progress
    res,            \* the last call completed: its number, caller, arguments, outcome
    tpc,            \* receive task -> suspension point
    lws,            \* receive task -> the WebSocket its async-for iterates
    cancelReq,      \* receive tasks with a cancellation requested
    nextId,         \* id of the next session to be created
    wsOpen,         \* WebSockets opened and not closed
    sessOpen,       \* aiohttp sessions created and not closed
    httpClosed,     \* the REST client self._http_client has been closed
    sent,           \* outbound frames written, in order: [ws, frame]
    consumed,       \* inbound frames read by receive loops, in order
    invoked,        \* callback invocations, in order
    ncalls,         \* the number of host calls started
    nsends,         \* how many of them were send operations
    url,            \* self.url, a sequence of characters
    base_url,       \* self.base_url, None before __init__ has derived it
    out_message,    \* an outbound message model, as constructed
    out_data,       \* its model_dump(exclude_none=True), once taken
    out_decoded,    \* what the schema makes of that dict, once validated
    dropped         \* a transport close or error was observed, and connect()
                    \* has not been called since

clientVars == <<connected, ready, ws, session, receive_task, fields>>
procVars == <<hpc, hloc, tpc, lws, cancelReq>>
envVars == <<nextId, wsOpen, sessOpen, httpClosed>>
logVars == <<sent, consumed, invoked, ncalls, nsends>>
histVars == <<logVars, res>>
regVars == <<cb, lastReg>>
urlVars == <<url, base_url>>
codecVars == <<out_message, out_data, out_decoded>>
vars == <<clientVars, regVars, procVars, envVars, histVars, urlVars, dropped, codecVars>>

\* ---------------------------------------------------------------- callbacks
\* The seven callback slots of the client.
Slots == {"ready", "stt_result", "message", "error",
          "participant_disconnected", "tts_playback_complete", "audio"}

\* A host handler, by what it does when called: return or raise, directly
\* (a plain function) or after suspending (a coroutine function).
Handlers == {"sync_ret", "sync_raise", "async_ret", "async_raise"}
\* "async_disconnect" is a coroutine function that awaits
\* client.disconnect(), catches what it raises, and returns.
IsAsync(h) == h \in {"async_ret", "async_raise", "async_disconnect"}
Raises(h) == h \in {"sync_raise", "async_raise"}

\* ---------------------------------------------------------------- message schema
\* A JSON value as json.loads yields it: a scalar [ty, v] or an object [ty, o]
\* whose o maps keys to JSON values.
JStr(s) == [ty |-> "str", v |-> s]
JNum(s) == [ty |-> "num", v |-> s]
JBool(s) == [ty |-> "bool", v |-> s]
JNull == [ty |-> "null", v |-> None]
JObj(o) == [ty |-> "obj", o |-> o]

\* pydantic field validation: a required field (Field(...)) must be present
\* and of its type; an Optional field may be absent or null.  (The inputs
\* carry no value that validation would coerce to another type.)
\* A required field that may be left out.
ReqOrAbsent(o, k, ty) == k \notin DOMAIN o \/ o[k].ty = ty
Req(o, k, ty) == k \in DOMAIN o /\ o[k].ty = ty
Opt(o, k, ty) == k \notin DOMAIN o \/ o[k].ty \in {ty, "null"}
\* The validated value of a scalar field, None when absent or null.
Val(o, k) == IF k \in DOMAIN o /\ o[k].ty # "null" THEN o[k].v ELSE None

NoMsg == [type |-> None]
Failed == [ok |-> FALSE, msg |-> NoMsg]
Decoded(m) == [ok |-> TRUE, msg |-> m]

\* A ready model whose livekit_url is optional.
ReadyMessageUrlOptional(o) ==
    IF /\ Opt(o, "livekit_url", "str")
       /\ Opt(o, "livekit_room_name", "str")
       /\ Opt(o, "sayna_participant_identity", "str")
       /\ Opt(o, "sayna_participant_name", "str")
    THEN Decoded([type |-> "ready",
                  livekit_room_name |-> Val(o, "livekit_room_name"),
                  livekit_url |-> Val(o, "livekit_url"),
                  sayna_participant_identity |-> Val(o, "sayna_participant_identity"),
                  sayna_participant_name |-> Val(o, "sayna_participant_name")])
    ELSE Failed

\* ReadyMessage(**parsed)
ReadyMessage(o) ==
    IF /\ Req(o, "livekit_url", "str")
       /\ Opt(o, "livekit_room_name", "str")
       /\ Opt(o, "sayna_participant_identity", "str")
       /\ Opt(o, "sayna_participant_name", "str")
    THEN Decoded([type |-> "ready",
                  livekit_room_name |-> Val(o, "livekit_room_name"),
                  livekit_url |-> Val(o, "livekit_url"),
                  sayna_participant_identity |-> Val(o, "sayna_participant_identity"),
                  sayna_participant_name |-> Val(o, "sayna_participant_name")])
    ELSE Failed

\* STTResultMessage(**parsed)
STTResultMessage(o) ==
    IF /\ Req(o, "transcript", "str")
       /\ Req(o, "is_final", "bool")
       /\ Req(o, "is_speech_final", "bool")
       /\ Req(o, "confidence", "num")
    THEN Decoded([type |-> "stt_result",
                  transcript |-> Val(o, "transcript"),
                  is_final |-> Val(o, "is_final"),
                  is_speech_final |-> Val(o, "is_speech_final"),
                  confidence |-> Val(o, "confidence")])
    ELSE Failed

\* ErrorMessage(**parsed)
ErrorMessage(o) ==
    IF Req(o, "message", "str")
    THEN Decoded([type |-> "error", message |-> Val(o, "message")])
    ELSE Failed

\* SaynaMessage, the payload nested in a MessageMessage
SaynaMessage(o) ==
    IF /\ Opt(o, "message", "str")
       /\ Opt(o, "data", "str")
       /\ Req(o, "identity", "str")
       /\ Req(o, "topic", "str")
       /\ Req(o, "room", "str")
       /\ Req(o, "timestamp", "num")
    THEN Decoded([message |-> Val(o, "message"), data |-> Val(o, "data"),
                  identity |-> Val(o, "identity"), topic |-> Val(o, "topic"),
                  room |-> Val(o, "room"), timestamp |-> Val(o, "timestamp")])
    ELSE Failed

\* MessageMessage(**parsed)
MessageMessage(o) ==
    IF Req(o, "message", "obj") /\ SaynaMessage(o["message"].o).ok
    THEN Decoded([type |-> "message", message |-> SaynaMessage(o["message"].o).msg])
    ELSE Failed

\* Participant, the payload nested in a ParticipantDisconnectedMessage
Participant(o) ==
    IF /\ Req(o, "identity", "str")
       /\ Opt(o, "name", "str")
       /\ Req(o, "room", "str")
       /\ Req(o, "timestamp", "num")
    THEN Decoded([identity |-> Val(o, "identity"), name |-> Val(o, "name"),
                  room |-> Val(o, "room"), timestamp |-> Val(o, "timestamp")])
    ELSE Failed

\* ParticipantDisconnectedMessage(**parsed)
ParticipantDisconnectedMessage(o) ==
    IF Req(o, "participant", "obj") /\ Participant(o["participant"].o).ok
    THEN Decoded([type |-> "participant_disconnected",
                  participant |-> Participant(o["participant"].o).msg])
    ELSE Failed

\* TTSPlaybackCompleteMessage(**parsed)
TTSPlaybackCompleteMessage(o) ==
    IF Req(o, "timestamp", "num")
    THEN Decoded([type |-> "tts_playback_complete", timestamp |-> Val(o, "timestamp")])
    ELSE Failed

\* The data of a text frame: text that is not JSON, JSON that is no object
\* (a list, a number, a string, null), or a JSON object.
TextInvalid == [j |-> "invalid", o |-> <<>>]
TextScalar == [j |-> "scalar", o |-> <<>>]
TextObject(o) == [j |-> "object", o |-> o]

\* A discriminator that falls back to "error" when the frame has none.
MsgTypeDefaultsError(o) ==
    IF "type" \in DOMAIN o /\ o["type"].ty = "str" THEN o["type"].v ELSE "error"

\* parsed.get("type"), as a Python string when it is one
MsgType(o) == IF "type" \in DOMAIN o /\ o["type"].ty = "str" THEN o["type"].v ELSE None

\* The message types _handle_text_message dispatches on; each names its slot.
KnownTypes == {"ready", "stt_result", "message", "error",
               "participant_disconnected", "tts_playback_complete"}

\* The model constructed for a discriminator.
Construct(t, o) ==
    CASE t = "ready" -> ReadyMessage(o)
      [] t = "stt_result" -> STTResultMessage(o)
      [] t = "message" -> MessageMessage(o)
      [] t = "error" -> ErrorMessage(o)
      [] t = "participant_disconnected" -> ParticipantDisconnectedMessage(o)
      [] t = "tts_playback_complete" -> TTSPlaybackCompleteMessage(o)
      [] OTHER -> Failed

\* What _handle_text_message makes of a text frame: the slot it routes to
\* and the decoded message, or why the frame is dropped.
\*   json       json.loads raised, or .get failed on a non-object
\*   unknown    no branch matches the discriminator
\*   validation the model's constructor raised ValidationError
DecodeText(data) ==
    IF data.j # "object" THEN [drop |-> "json", slot |-> None, msg |-> NoMsg]
    ELSE IF MsgType(data.o) \notin KnownTypes
         THEN [drop |-> "unknown", slot |-> None, msg |-> NoMsg]
    ELSE IF ~Construct(MsgType(data.o), data.o).ok
         THEN [drop |-> "validation", slot |-> None, msg |-> NoMsg]
    ELSE [drop |-> "no", slot |-> MsgType(data.o),
          msg |-> Construct(MsgType(data.o), data.o).msg]

\* model_dump(exclude_none=True): the fields that are not None
ExcludeNone(m) == [k \in {x \in DOMAIN m : m[x] # None} |-> m[k]]

\* The outbound control messages, as the dict handed to send_json.
ConfigMessage(audio, stt_config, tts_config, livekit) ==
    ExcludeNone([type |-> "config", audio |-> audio, stt_config |-> stt_config,
                 tts_config |-> tts_config, livekit |-> livekit])
SpeakMessage(text, flush, allow_interruption) ==
    ExcludeNone([type |-> "speak", text |-> text, flush |-> flush,
                 allow_interruption |-> allow_interruption])
ClearMessage == ExcludeNone([type |-> "clear"])
SendMessageMessage(message, role, topic, debug) ==
    ExcludeNone([type |-> "send_message", message |-> message, role |-> role,
                 topic |-> topic, debug |-> debug])

\* An outbound message model as constructed, every field of its class
\* present, None where it was passed as None.
ConfigModel(audio, stt_config, tts_config, livekit) ==
    [type |-> "config", audio |-> audio, stt_config |-> stt_config,
     tts_config |-> tts_config, livekit |-> livekit]
SpeakModel(text, flush, allow_interruption) ==
    [type |-> "speak", text |-> text, flush |-> flush,
     allow_interruption |-> allow_interruption]
ClearModel == [type |-> "clear"]
SendMessageModel(message, role, topic, debug) ==
    [type |-> "send_message", message |-> message, role |-> role,
     topic |-> topic, debug |-> debug]

\* message.model_dump(exclude_none=True), by the class of the model
ModelDump(m) ==
    CASE m.type = "config" ->
           ConfigMessage(m.audio, m.stt_config, m.tts_config, m.livekit)
      [] m.type = "speak" -> SpeakMessage(m.text, m.flush, m.allow_interruption)
      [] m.type = "clear" -> ClearMessage
      [] m.type = "send_message" ->
           SendMessageMessage(m.message, m.role, m.topic, m.debug)

\* The fields an outbound class requires (Field(...)), and the defaults of
\* its other fields: all None, but audio, which defaults to True.
OutRequired(t) ==
    CASE t = "speak" -> {"text"}
      [] t = "send_message" -> {"message", "role"}
      [] OTHER -> {}
OutDefaults(t) ==
    CASE t = "config" -> [audio |-> "true", stt_config |-> None, tts_config |-> None,
                          livekit |-> None]
      [] t = "speak" -> [flush |-> None, allow_interruption |-> None]
      [] t = "send_message" -> [topic |-> None, debug |-> None]
      [] OTHER -> [k \in {} |-> None]

\* Class(**o) for the outbound class o["type"] names: a field that is
\* absent takes its default, a required field that is absent fails.
ModelValidate(o) ==
    LET t == o.type
        keys == {"type"} \cup OutRequired(t) \cup DOMAIN OutDefaults(t)
    IN  IF OutRequired(t) \subseteq DOMAIN o
        THEN Decoded([k \in keys |-> IF k \in DOMAIN o THEN o[k] ELSE OutDefaults(t)[k]])
        ELSE Failed

\* The message is dumped for the wire.
EncodeOutbound ==
    /\ out_message # NoMsg
    /\ out_data = NoMsg
    /\ out_data' = ModelDump(out_message)
    /\ UNCHANGED <<clientVars, regVars, procVars, envVars, histVars, urlVars, dropped,
                   out_message, out_decoded>>

\* The dict on the wire is validated through the class that produced it.
DecodeOutbound ==
    /\ out_data # NoMsg
    /\ out_decoded = Failed
    /\ out_decoded' = ModelValidate(out_data)
    /\ UNCHANGED <<clientVars, regVars, procVars, envVars, histVars, urlVars, dropped,
                   out_message, out_data>>

\* ---------------------------------------------------------------- REST base URL
\* A Python str, where its characters matter, is a sequence of
\* one-character strings.
WssScheme == <<"w", "s", "s", ":", "/", "/">>
WsScheme == <<"w", "s", ":", "/", "/">>
HttpsScheme == <<"h", "t", "t", "p", "s", ":", "/", "/">>
HttpScheme == <<"h", "t", "t", "p", ":", "/", "/">>
WsEndpoint == <<"/", "w", "s">>

\* s.startswith(p), s.endswith(p)
StartsWith(s, p) == Len(s) >= Len(p) /\ SubSeq(s, 1, Len(p)) = p
EndsWith(s, p) == Len(s) >= Len(p) /\ SubSeq(s, Len(s) - Len(p) + 1, Len(s)) = p

\* s.replace(old, new): every occurrence of old, scanning from the left
RECURSIVE Replace(_, _, _)
Replace(s, old, new) ==
    IF Len(s) < Len(old) THEN s
    ELSE IF StartsWith(s, old)
         THEN new \o Replace(SubSeq(s, Len(old) + 1, Len(s)), old, new)
    ELSE <<Head(s)>> \o Replace(Tail(s), old, new)

\* The base URL __init__ derives from the WebSocket URL u.
BaseUrl(u) ==
    IF StartsWith(u, WsScheme) \/ StartsWith(u, WssScheme)
    THEN LET b == Replace(Replace(u, WssScheme, HttpsScheme), WsScheme, HttpScheme)
         IN  IF EndsWith(b, WsEndpoint) THEN SubSeq(b, 1, Len(b) - 3) ELSE b
    ELSE u

\* ---------------------------------------------------------------- initial state
NoFields == [livekit_room_name |-> None, livekit_url |-> None,
             sayna_participant_identity |-> None, sayna_participant_name |-> None]
NoLocals == [n |-> 0, task |-> 0, call |-> [op |-> "none"], obj |-> 0, err |-> "ok",
             cause |-> None]
NoCall == [n |-> 0, host |-> None, call |-> [op |-> "none"], err |-> "ok", cause |-> None]

\* The URL the sessions of the lifecycle connect to: wss://a/ws
SessionUrl == WssScheme \o <<"a">> \o WsEndpoint

\* SaynaClient.__init__, the connection state and the callbacks
InitSession ==
    /\ connected = FALSE
    /\ ready = FALSE
    /\ ws = 0
    /\ session = 0
    /\ receive_task = 0
    /\ fields = NoFields
    /\ cb = [s \in Slots |-> None]
    /\ lastReg = [slot |-> None, handler |-> None]
    /\ hpc = [h \in Callers |-> "idle"]
    /\ hloc = [h \in Callers |-> NoLocals]
    /\ res = NoCall
    /\ tpc = [t \in TaskIds |-> "none"]
    /\ lws = [t \in TaskIds |-> 0]
    /\ cancelReq = {}
    /\ nextId = 1
    /\ wsOpen = {}
    /\ sessOpen = {}
    /\ httpClosed = FALSE
    /\ sent = <<>>
    /\ consumed = <<>>
    /\ invoked = <<>>
    /\ ncalls = 0
    /\ nsends = 0
    /\ dropped = FALSE

\* SaynaClient.__init__
\* No outbound message is being encoded.
NoOutbound ==
    /\ out_message = NoMsg
    /\ out_data = NoMsg
    /\ out_decoded = Failed

Init ==
    /\ InitSession
    /\ url = SessionUrl
    /\ base_url = BaseUrl(url)
    /\ NoOutbound

\* SaynaClient.__init__, from self.url = url to self.base_url = ...
DeriveBaseUrl ==
    /\ base_url = None
    /\ base_url' = BaseUrl(url)
    /\ UNCHANGED <<clientVars, regVars, procVars, envVars, histVars, url, dropped, codecVars>>

\* The number of the call host coroutine h is in: the one it starts in this
\* step, or the one it is suspended in.
CallNo(h) == IF hpc[h] = "idle" THEN ncalls + 1 ELSE hloc[h].n

\* A host coroutine raises err out of its call, with the exception that
\* caused it (raise ... from e) or None.
Raise(h, call, err, cause) ==
    /\ hpc' = [hpc EXCEPT ![h] = "idle"]
    /\ hloc' = [hloc EXCEPT ![h] = NoLocals]
    /\ res' = [n |-> CallNo(h), host |-> h, call |-> call, err |-> err, cause |-> cause]

\* A host coroutine returns from its call ("ok"), or raises an exception
\* that has no cause.
Return(h, call, err) == Raise(h, call, err, None)

\* A host coroutine suspends at an await.  Its locals keep the receive
\* task the call has awaited (await self._receive_task), if any.
Suspend(h, at, locals) ==
    /\ hpc' = [hpc EXCEPT ![h] = at]
    /\ hloc' = [hloc EXCEPT ![h] =
                   [n |-> CallNo(h),
                    task |-> IF at = "d_await" THEN locals.obj ELSE hloc[h].task]
                   @@ locals]
    /\ UNCHANGED res

\* A host coroutine starts a call of the client's API.  Host coroutines are
\* interchangeable, so a call is started by "h1" when it is free and by
\* "h2" only while "h1" is inside a call.
Call(h) ==
    /\ hpc[h] = "idle"
    /\ h = "h2" => hpc["h1"] # "idle"
    /\ ncalls' = ncalls + 1

\* ---------------------------------------------------------------- register_on_*
\* A registration that keeps the handler a slot already holds.
RegisterKeepsFirst(slot, handler) ==
    /\ cb' = [cb EXCEPT ![slot] = IF cb[slot] = None THEN handler ELSE cb[slot]]
    /\ lastReg' = [slot |-> slot, handler |-> handler]
    /\ Cardinality({x \in Slots : cb'[x] # None}) <= MaxHandlers
    /\ UNCHANGED <<clientVars, procVars, envVars, sent, consumed, invoked, res, ncalls, nsends>>
    /\ UNCHANGED <<urlVars, dropped, codecVars>>

\* register_on_ready .. register_on_audio: the slot is overwritten.
Register(slot, handler) ==
    /\ cb' = [cb EXCEPT ![slot] = handler]
    /\ lastReg' = [slot |-> slot, handler |-> handler]
    /\ Cardinality({x \in Slots : cb'[x] # None}) <= MaxHandlers
    /\ UNCHANGED <<clientVars, procVars, envVars, sent, consumed, invoked, res, ncalls, nsends>>
    /\ UNCHANGED <<urlVars, dropped, codecVars>>

\* ---------------------------------------------------------------- connect
\* A check that looks at stt_config alone.
ConfigInvalidSttOnly(cfg) ==
    cfg.audio = "true" /\ cfg.stt_config = None

\* The configuration check of connect(): audio needs both sub-configs.
ConfigInvalid(cfg) ==
    cfg.audio = "true" /\ (cfg.stt_config = None \/ cfg.tts_config = None)

\* A test that never takes the early return.
ConnectNoopNever(c) == FALSE

\* The test of connect() for its early return, c being self._connected.
ConnectNoop(c) == c

\* connect(), up to its first await (session.ws_connect).
ConnectCall(h, cfg) ==
    /\ Call(h)
    /\ ncalls - nsends < MaxCalls
    /\ UNCHANGED nsends
    /\ IF ConnectNoop(connected)
       THEN \* "Already connected": a warning and nothing else
            /\ Return(h, [op |-> "connect", cfg |-> cfg], "ok")
            /\ UNCHANGED <<session, nextId, sessOpen>>
       ELSE IF ConfigInvalid(cfg)
       THEN /\ Return(h, [op |-> "connect", cfg |-> cfg], "SaynaValidationError")
            /\ UNCHANGED <<session, nextId, sessOpen>>
       ELSE /\ session' = nextId
            /\ sessOpen' = sessOpen \cup {nextId}
            /\ nextId' = nextId + 1
            /\ Suspend(h, "c_open", [call |-> [op |-> "connect", cfg |-> cfg], obj |-> nextId,
                                       err |-> "ok", cause |-> None])
    /\ UNCHANGED <<connected, ready, ws, receive_task, fields, regVars, tpc, lws, cancelReq,
                   wsOpen, httpClosed, sent, consumed, invoked>>
    /\ dropped' = FALSE
    /\ UNCHANGED <<urlVars, codecVars>>

\* A check that never raises.
CheckConnectedNever(c) == "ok"

\* _check_connected
CheckConnected(c) == IF ~c THEN "SaynaNotConnectedError" ELSE "ok"

\* A check that stops at _check_connected.
CheckReadyOnlyConnected(c, r) == CheckConnected(c)

\* _check_ready
CheckReady(c, r) ==
    IF CheckConnected(c) # "ok" THEN CheckConnected(c)
    ELSE IF ~r THEN "SaynaNotReadyError"
    ELSE "ok"

\* The write of one frame on WebSocket w (send_json / send_bytes), open
\* being the sockets that are open: on an open socket the frame goes out; a
\* closed socket refuses the write.
WsWrite(open, w, kind, data) ==
    IF w \in open
    THEN [err |-> "ok", out |-> <<[ws |-> w, kind |-> kind, data |-> data]>>]
    ELSE [err |-> "TransportError", out |-> <<>>]

\* A _send_json that writes nothing.
SendJsonSkipsWrite(c, open, w, data) ==
    IF CheckConnected(c) # "ok" THEN [err |-> CheckConnected(c), out |-> <<>>]
    ELSE [err |-> "ok", out |-> <<>>]

\* _send_json, with c and w the values of self._connected and self._ws
SendJson(c, open, w, data) ==
    IF CheckConnected(c) # "ok" THEN [err |-> CheckConnected(c), out |-> <<>>]
    ELSE IF w # 0 THEN WsWrite(open, w, "text", data)
    ELSE [err |-> "ok", out |-> <<>>]

\* connect(), resumed when ws_connect settles, through to its return.
\* how = "open_failed": ws_connect raised; "send_failed": the transport
\* failed the write of the config message; "ok": neither.
ConnectResume(h, how) ==
    /\ hpc[h] = "c_open"
    /\ LET id == hloc[h].obj
           cfg == hloc[h].call.cfg
           config == ConfigMessage(cfg.audio, cfg.stt_config, cfg.tts_config, cfg.livekit)
           r == IF how = "send_failed" THEN [err |-> "TransportError", out |-> <<>>]
                ELSE SendJson(TRUE, wsOpen \cup {id}, id, config)
       IN  IF how = "open_failed"
           THEN \* except: self._connected = False; raise SaynaConnectionError
                /\ connected' = FALSE
                /\ Raise(h, [op |-> "connect", cfg |-> cfg], "SaynaConnectionError",
                         "ws_connect: ClientError")
                /\ UNCHANGED <<ws, wsOpen, sent, receive_task, tpc>>
           ELSE /\ ws' = id
                /\ wsOpen' = wsOpen \cup {id}
                /\ IF r.err # "ok"
                   THEN /\ connected' = FALSE
                        /\ Raise(h, [op |-> "connect", cfg |-> cfg],
                                 "SaynaConnectionError", "send_json: " \o r.err)
                        /\ UNCHANGED <<sent, receive_task, tpc>>
                   ELSE /\ connected' = TRUE
                        /\ sent' = sent \o r.out
                        /\ receive_task' = id
                        /\ tpc' = [tpc EXCEPT ![id] = "start"]
                        /\ Return(h, [op |-> "connect", cfg |-> cfg], "ok")
    /\ UNCHANGED <<ready, session, fields, regVars, lws, cancelReq, nextId, sessOpen,
                   httpClosed, consumed, invoked, ncalls, nsends>>
    /\ UNCHANGED <<urlVars, dropped, codecVars>>

\* ---------------------------------------------------------------- disconnect
\* disconnect() from "Close session" on, s and sopen being self._session and
\* the open sessions: where it suspends next, and what it has assigned by
\* then.  self._ws is None by now.
DiscFromSession(s, sopen) ==
    IF s # 0 /\ s \in sopen
    THEN [at |-> "d_sessclose", obj |-> s, ws |-> 0, session |-> s, cleared |-> FALSE]
    ELSE \* session = None; _connected = False; _ready = False; finally
         [at |-> "d_http", obj |-> 0, ws |-> 0, session |-> 0, cleared |-> TRUE]

\* disconnect() from "Close WebSocket" on.
DiscFromWs(w, wopen, s, sopen) ==
    IF w # 0 /\ w \in wopen
    THEN [at |-> "d_wsclose", obj |-> w, ws |-> w, session |-> s, cleared |-> FALSE]
    ELSE DiscFromSession(s, sopen)

\* The assignments of a stretch of disconnect() and its next suspension.
DiscApply(h, r) ==
    /\ ws' = r.ws
    /\ session' = r.session
    /\ connected' = IF r.cleared THEN FALSE ELSE connected
    /\ ready' = IF r.cleared THEN FALSE ELSE ready
    /\ Suspend(h, r.at, [call |-> [op |-> "disconnect"], obj |-> r.obj, err |-> "ok",
                         cause |-> None])

\* except Exception in disconnect(): the error is logged and re-raised as
\* SaynaConnectionError once the finally clause has closed the REST client.
DiscRaise(h, cause) ==
    /\ Suspend(h, "d_http", [call |-> [op |-> "disconnect"], obj |-> 0,
                             err |-> "SaynaConnectionError", cause |-> cause])
    /\ UNCHANGED <<connected, ready, ws, session>>

\* A test that never takes the early return.
DisconnectNoopNever(c) == FALSE

\* The test of disconnect() for its early return, c being self._connected.
DisconnectNoop(c) == ~c

\* disconnect(), up to its first await.
DisconnectCall(h) ==
    /\ Call(h)
    /\ ncalls - nsends < MaxCalls
    /\ UNCHANGED nsends
    /\ IF DisconnectNoop(connected)
       THEN \* "Not connected": a warning and nothing else
            /\ Return(h, [op |-> "disconnect"], "ok")
            /\ UNCHANGED <<connected, ready, ws, session, receive_task, cancelReq>>
       ELSE IF receive_task # 0 /\ tpc[receive_task] # "done"
       THEN \* task.cancel(); await task
            /\ cancelReq' = cancelReq \cup {receive_task}
            /\ Suspend(h, "d_await", [call |-> [op |-> "disconnect"], obj |-> receive_task,
                                      err |-> "ok", cause |-> None])
            /\ UNCHANGED <<connected, ready, ws, session, receive_task>>
       ELSE \* no task, or a finished one whose await returns at once
            /\ receive_task' = 0
            /\ DiscApply(h, DiscFromWs(ws, wsOpen, session, sessOpen))
            /\ UNCHANGED cancelReq
    /\ UNCHANGED <<fields, regVars, tpc, lws, envVars, sent, consumed, invoked>>
    /\ UNCHANGED <<urlVars, dropped, codecVars>>

\* disconnect(), resumed when the awaited receive task has finished.
DisconnectAwaited(h) ==
    /\ hpc[h] = "d_await"
    /\ tpc[hloc[h].obj] = "done"
    /\ receive_task' = 0
    /\ DiscApply(h, DiscFromWs(ws, wsOpen, session, sessOpen))
    /\ UNCHANGED <<fields, regVars, tpc, lws, cancelReq, envVars, logVars>>
    /\ UNCHANGED <<urlVars, dropped, codecVars>>

\* disconnect(), resumed when self._ws.close() settles.
DisconnectWsClosed(h, ok) ==
    /\ hpc[h] = "d_wsclose"
    /\ IF ok
       THEN /\ wsOpen' = wsOpen \ {hloc[h].obj}
            /\ DiscApply(h, DiscFromSession(session, sessOpen))
       ELSE /\ DiscRaise(h, "ws.close: Exception")
            /\ UNCHANGED wsOpen
    /\ UNCHANGED <<receive_task, fields, regVars, tpc, lws, cancelReq, nextId, sessOpen,
                   httpClosed, logVars>>
    /\ UNCHANGED <<urlVars, dropped, codecVars>>

\* disconnect(), resumed when self._session.close() settles; a closed
\* session has closed the socket it carried.
DisconnectSessClosed(h, ok) ==
    /\ hpc[h] = "d_sessclose"
    /\ IF ok
       THEN /\ sessOpen' = sessOpen \ {hloc[h].obj}
            /\ wsOpen' = wsOpen \ {hloc[h].obj}
            /\ DiscApply(h, [at |-> "d_http", obj |-> 0, ws |-> ws, session |-> 0,
                             cleared |-> TRUE])
       ELSE /\ DiscRaise(h, "session.close: Exception")
            /\ UNCHANGED <<sessOpen, wsOpen>>
    /\ UNCHANGED <<receive_task, fields, regVars, tpc, lws, cancelReq, nextId,
                   httpClosed, logVars>>
    /\ UNCHANGED <<urlVars, dropped, codecVars>>

\* disconnect(), resumed in its finally clause when the REST client closed.
DisconnectHttpClosed(h) ==
    /\ hpc[h] = "d_http"
    /\ httpClosed' = TRUE
    /\ Raise(h, [op |-> "disconnect"], hloc[h].err, hloc[h].cause)
    /\ UNCHANGED <<clientVars, regVars, tpc, lws, cancelReq, nextId, wsOpen, sessOpen, logVars>>
    /\ UNCHANGED <<urlVars, dropped, codecVars>>

\* ---------------------------------------------------------------- send operations
\* The frame a send call builds from its arguments.
OutFrame(call) ==
    CASE call.op = "send_speak" ->
           [kind |-> "text",
            data |-> SpeakMessage(call.text, call.flush, call.allow_interruption)]
      [] call.op = "send_clear" ->
           [kind |-> "text", data |-> ClearMessage]
      [] call.op = "send_message" ->
           [kind |-> "text",
            data |-> SendMessageMessage(call.message, call.role, call.topic, call.debug)]
      [] call.op = "send_audio" ->
           [kind |-> "binary", data |-> [bytes |-> call.audio_data]]

\* What a send call does once _check_ready has passed: the control messages
\* go through _send_json, audio through self._ws.send_bytes; both skip the
\* write when self._ws is None.
SendBody(call, c, open, w) ==
    IF call.op = "send_audio"
    THEN IF w # 0 THEN WsWrite(open, w, "binary", OutFrame(call).data)
         ELSE [err |-> "ok", out |-> <<>>]
    ELSE SendJson(c, open, w, OutFrame(call).data)

\* send_speak / send_clear / send_message / send_audio
SendOp(call, c, r, open, w) ==
    IF CheckReady(c, r) # "ok" THEN [err |-> CheckReady(c, r), out |-> <<>>]
    ELSE SendBody(call, c, open, w)

Send(h, call) ==
    /\ Call(h)
    /\ nsends < MaxSends
    /\ nsends' = nsends + 1
    /\ sent' = sent \o SendOp(call, connected, ready, wsOpen, ws).out
    /\ Return(h, call, SendOp(call, connected, ready, wsOpen, ws).err)
    /\ UNCHANGED <<clientVars, regVars, tpc, lws, cancelReq, envVars, consumed, invoked>>
    /\ UNCHANGED <<urlVars, dropped, codecVars>>

\* ---------------------------------------------------------------- receive loop
\* Inbound frame kinds that end the loop: an ERROR or CLOSED message (break),
\* the end of the stream (the async-for finishes), an exception raised by
\* the read (except Exception).
EndKinds == {"error", "closed", "eof", "exception"}
\* Those after which the socket is closed.
ClosingKinds == {"closed", "eof"}

\* A dispatch in which the audio handler's call is not guarded.
CallbackRaiseAudioEscapes(slot) == IF slot = "audio" THEN "loop" ELSE "logged"

\* Where an exception raised by the handler of a slot ends up: every
\* handler call sits in its own try / except Exception, which logs it
\* ("logged"); "loop" would be an exception reaching _receive_loop.
CallbackRaise(slot) == "logged"

\* A call in which an exception raised by a plain function ends the loop.
InvokeRaiseEndsLoop(handler, t, n, slot, arg) ==
    LET entry(o) == [task |-> t, n |-> n, slot |-> slot, handler |-> handler,
                     arg |-> arg, outcome |-> o]
    IN  IF handler = None THEN [calls |-> <<>>, next |-> "recv"]
        ELSE IF IsAsync(handler) THEN [calls |-> <<entry("running")>>, next |-> "in_cb"]
        ELSE IF Raises(handler) THEN [calls |-> <<entry("raised")>>, next |-> "exit"]
        ELSE [calls |-> <<entry("returned")>>, next |-> "recv"]

\* The call of the handler registered for a slot, for frame number n read
\* by task t: no call when the slot is empty; a plain function has run to
\* its end when the call returns; a coroutine function leaves the loop
\* suspended in it.
\*   calls  the invocation to record (none or one)
\*   next   where the loop goes: "recv", "in_cb", or "exit" when an
\*          exception reaches _receive_loop
Invoke(handler, t, n, slot, arg) ==
    LET entry(o) == [task |-> t, n |-> n, slot |-> slot, handler |-> handler,
                     arg |-> arg, outcome |-> o]
    IN  IF handler = None THEN [calls |-> <<>>, next |-> "recv"]
        ELSE IF IsAsync(handler) THEN [calls |-> <<entry("running")>>, next |-> "in_cb"]
        ELSE IF Raises(handler)
             THEN [calls |-> <<entry("raised")>>,
                   next |-> IF CallbackRaise(slot) = "loop" THEN "exit" ELSE "recv"]
        ELSE [calls |-> <<entry("returned")>>, next |-> "recv"]

\* Assignments that leave the participant name out.
HandleReadyNoName(message) ==
    [livekit_room_name |-> message.livekit_room_name,
     livekit_url |-> message.livekit_url,
     sayna_participant_identity |-> message.sayna_participant_identity,
     sayna_participant_name |-> None]

\* _handle_ready: the assignments made before the handler is called.
HandleReady(message) ==
    [livekit_room_name |-> message.livekit_room_name,
     livekit_url |-> message.livekit_url,
     sayna_participant_identity |-> message.sayna_participant_identity,
     sayna_participant_name |-> message.sayna_participant_name]

\* A handler that lets a decode failure out to the loop.
HandleTextMessageStrict(registry, t, n, data) ==
    LET d == DecodeText(data)
    IN  IF d.drop \in {"json", "validation"}
        THEN [setReady |-> FALSE, fields |-> NoFields, calls |-> <<>>, next |-> "exit"]
        ELSE IF d.drop # "no"
        THEN [setReady |-> FALSE, fields |-> NoFields, calls |-> <<>>, next |-> "recv"]
        ELSE [setReady |-> d.slot = "ready",
              fields |-> IF d.slot = "ready" THEN HandleReady(d.msg) ELSE NoFields,
              calls |-> Invoke(registry[d.slot], t, n, d.slot, d.msg).calls,
              next |-> Invoke(registry[d.slot], t, n, d.slot, d.msg).next]

\* _handle_text_message: a frame that does not decode is logged and
\* dropped; a decoded message goes to the handler of its type, a ready
\* message first setting the session attributes.
HandleTextMessage(registry, t, n, data) ==
    LET d == DecodeText(data)
    IN  IF d.drop # "no"
        THEN [setReady |-> FALSE, fields |-> NoFields, calls |-> <<>>, next |-> "recv"]
        ELSE [setReady |-> d.slot = "ready",
              fields |-> IF d.slot = "ready" THEN HandleReady(d.msg) ELSE NoFields,
              calls |-> Invoke(registry[d.slot], t, n, d.slot, d.msg).calls,
              next |-> Invoke(registry[d.slot], t, n, d.slot, d.msg).next]

\* A binary handler that hands the bytes to the transcript handler.
HandleBinaryMessageAsTranscript(registry, t, n, data) ==
    [setReady |-> FALSE, fields |-> NoFields,
     calls |-> Invoke(registry["stt_result"], t, n, "stt_result", data).calls,
     next |-> Invoke(registry["stt_result"], t, n, "stt_result", data).next]

\* _handle_binary_message: the bytes go to the audio handler.
HandleBinaryMessage(registry, t, n, data) ==
    [setReady |-> FALSE, fields |-> NoFields,
     calls |-> Invoke(registry["audio"], t, n, "audio", data).calls,
     next |-> Invoke(registry["audio"], t, n, "audio", data).next]

\* One iteration of the async-for of _receive_loop on frame f.
OnFrame(registry, t, n, f) ==
    CASE f.kind = "text" -> HandleTextMessage(registry, t, n, f.data)
      [] f.kind = "binary" -> HandleBinaryMessage(registry, t, n, f.data)
      [] f.kind \in EndKinds ->
           [setReady |-> FALSE, fields |-> NoFields, calls |-> <<>>, next |-> "exit"]
      [] OTHER -> \* any other message type: no branch, next iteration
           [setReady |-> FALSE, fields |-> NoFields, calls |-> <<>>, next |-> "recv"]

\* A finally clause that forgets the ready flag.
LoopFinallyKeepsReady ==
    /\ connected' = FALSE
    /\ ready' = ready

\* The finally clause of _receive_loop.
LoopFinally ==
    /\ connected' = FALSE
    /\ ready' = FALSE

\* The first step of a receive task.  A task cancelled before it ever ran
\* ends without entering the coroutine.
LoopStart(t) ==
    /\ tpc[t] = "start"
    /\ IF t \in cancelReq
       THEN /\ tpc' = [tpc EXCEPT ![t] = "done"]
            /\ cancelReq' = cancelReq \ {t}
            /\ UNCHANGED <<connected, ready, lws>>
       ELSE IF ws = 0
       THEN \* if not self._ws: return
            /\ tpc' = [tpc EXCEPT ![t] = "done"]
            /\ LoopFinally
            /\ UNCHANGED <<cancelReq, lws>>
       ELSE /\ lws' = [lws EXCEPT ![t] = ws]
            /\ tpc' = [tpc EXCEPT ![t] = "recv"]
            /\ UNCHANGED <<connected, ready, cancelReq>>
    /\ UNCHANGED <<ws, session, receive_task, fields, regVars, hpc, hloc, envVars, histVars>>
    /\ UNCHANGED <<urlVars, dropped, codecVars>>

\* The loop, waiting for the next frame, reads frame f and handles it up
\* to its next suspension.  A socket that is closed yields no more frames.
LoopRecv(t, f) ==
    /\ tpc[t] = "recv"
    /\ t \notin cancelReq
    /\ Len(consumed) < MaxFrames
    /\ lws[t] \notin wsOpen => f.kind \in {"eof", "exception"}
    /\ LET n == Len(consumed) + 1
           e == OnFrame(cb, t, n, f)
       IN  /\ consumed' = Append(consumed, [task |-> t, frame |-> f])
           /\ invoked' = invoked \o e.calls
           /\ fields' = IF e.setReady THEN e.fields ELSE fields
           /\ IF e.next = "exit"
              THEN /\ LoopFinally
                   /\ tpc' = [tpc EXCEPT ![t] = "done"]
              ELSE /\ ready' = IF e.setReady THEN TRUE ELSE ready
                   /\ tpc' = [tpc EXCEPT ![t] = e.next]
                   /\ UNCHANGED connected
    /\ wsOpen' = IF f.kind \in ClosingKinds THEN wsOpen \ {lws[t]} ELSE wsOpen
    /\ UNCHANGED <<ws, session, receive_task, regVars, hpc, hloc, lws, cancelReq, nextId,
                   sessOpen, httpClosed, sent, res, ncalls, nsends>>
    /\ dropped' = (dropped \/ f.kind \in EndKinds)
    /\ UNCHANGED <<urlVars, codecVars>>

\* The invocation a task is suspended in.
Running(t) == CHOOSE i \in 1..Len(invoked) :
                  invoked[i].task = t /\ invoked[i].outcome = "running"

\* The coroutine handler the loop awaits finishes: it returns, or raises.
LoopCallbackDone(t) ==
    /\ tpc[t] = "in_cb"
    /\ t \notin cancelReq
    /\ LET i == Running(t)
           raised == Raises(invoked[i].handler)
       IN  /\ invoked' = [invoked EXCEPT ![i].outcome =
                              IF raised THEN "raised" ELSE "returned"]
           /\ IF raised /\ CallbackRaise(invoked[i].slot) = "loop"
              THEN /\ LoopFinally
                   /\ tpc' = [tpc EXCEPT ![t] = "done"]
              ELSE /\ tpc' = [tpc EXCEPT ![t] = "recv"]
                   /\ UNCHANGED <<connected, ready>>
    /\ UNCHANGED <<ws, session, receive_task, fields, regVars, hpc, hloc, lws, cancelReq,
                   envVars, sent, consumed, res, ncalls, nsends>>
    /\ UNCHANGED <<urlVars, dropped, codecVars>>

\* A requested cancellation reaches the task at its suspension point:
\* CancelledError passes through the handler awaited, if any, to
\* except asyncio.CancelledError, and the finally clause runs.
LoopCancelled(t) ==
    /\ tpc[t] \in {"recv", "in_cb"}
    /\ t \in cancelReq
    /\ cancelReq' = cancelReq \ {t}
    /\ tpc' = [tpc EXCEPT ![t] = "done"]
    /\ invoked' = IF tpc[t] = "in_cb"
                  THEN [invoked EXCEPT ![Running(t)].outcome = "cancelled"]
                  ELSE invoked
    /\ LoopFinally
    /\ UNCHANGED <<ws, session, receive_task, fields, regVars, hpc, hloc, lws,
                   envVars, sent, consumed, res, ncalls, nsends>>
    /\ UNCHANGED <<urlVars, dropped, codecVars>>

\* ---------------------------------------------------------------- disconnect from a handler
\* The coroutine handler the loop of task t is suspended in calls
\* disconnect(), which runs up to its first await.  When the task the
\* client holds is t itself, cancel() marks the running task and
\* `await self._receive_task` yields the task to itself.
CallbackDisconnectCall(t) ==
    /\ tpc[t] = "in_cb"
    /\ t \notin cancelReq
    /\ invoked[Running(t)].handler = "async_disconnect"
    /\ Call("cb")
    /\ ncalls - nsends < MaxCalls
    /\ tpc' = [tpc EXCEPT ![t] = "in_disc"]
    /\ IF DisconnectNoop(connected)
       THEN /\ Return("cb", [op |-> "disconnect"], "ok")
            /\ UNCHANGED <<connected, ready, ws, session, receive_task, cancelReq>>
       ELSE IF receive_task = t
       THEN /\ Suspend("cb", "d_await", [call |-> [op |-> "disconnect"], obj |-> t,
                                          err |-> "ok", cause |-> None])
            /\ UNCHANGED <<connected, ready, ws, session, receive_task, cancelReq>>
       ELSE IF receive_task # 0 /\ tpc[receive_task] # "done"
       THEN /\ cancelReq' = cancelReq \cup {receive_task}
            /\ Suspend("cb", "d_await", [call |-> [op |-> "disconnect"],
                                          obj |-> receive_task, err |-> "ok", cause |-> None])
            /\ UNCHANGED <<connected, ready, ws, session, receive_task>>
       ELSE /\ receive_task' = 0
            /\ DiscApply("cb", DiscFromWs(ws, wsOpen, session, sessOpen))
            /\ UNCHANGED cancelReq
    /\ UNCHANGED <<fields, regVars, lws, envVars, sent, consumed, invoked, nsends>>
    /\ UNCHANGED <<urlVars, dropped, codecVars>>

\* The task that awaits itself is stepped again with "Task cannot await on
\* itself", which the pending cancellation replaces by CancelledError;
\* disconnect() catches it (except asyncio.CancelledError: pass) and goes
\* on to close the socket.
CallbackDisconnectSelfAwaited(t) ==
    /\ tpc[t] = "in_disc"
    /\ hpc["cb"] = "d_await"
    /\ hloc["cb"].obj = t
    /\ receive_task' = 0
    /\ DiscApply("cb", DiscFromWs(ws, wsOpen, session, sessOpen))
    /\ UNCHANGED <<fields, regVars, tpc, lws, cancelReq, envVars, logVars>>
    /\ UNCHANGED <<urlVars, dropped, codecVars>>

\* disconnect() has returned to the handler, or raised into its
\* try / except Exception; the handler returns and the loop goes back to
\* its async for.
CallbackDisconnectDone(t) ==
    /\ tpc[t] = "in_disc"
    /\ hpc["cb"] = "idle"
    /\ invoked' = [invoked EXCEPT ![Running(t)].outcome = "returned"]
    /\ tpc' = [tpc EXCEPT ![t] = "recv"]
    /\ UNCHANGED <<clientVars, regVars, hpc, hloc, lws, cancelReq, envVars, sent, consumed,
                   res, ncalls, nsends>>
    /\ UNCHANGED <<urlVars, dropped, codecVars>>

\* A coroutine handler other than the disconnecting one finishes.
CallbackDone(t) ==
    /\ tpc[t] = "in_cb"
    /\ invoked[Running(t)].handler # "async_disconnect"
    /\ LoopCallbackDone(t)

\* ---------------------------------------------------------------- inputs
\* Inbound frames.
Text(o) == [kind |-> "text", data |-> TextObject(o)]
ReadyRoom1 == Text([type |-> JStr("ready"), livekit_room_name |-> JStr("room-1"),
                    livekit_url |-> JStr("wss://x"),
                    sayna_participant_identity |-> JStr("sayna-ai"),
                    sayna_participant_name |-> JStr("Sayna AI")])
ReadyNoRoom == Text([type |-> JStr("ready"), livekit_url |-> JStr("wss://y"),
                     livekit_room_name |-> JNull])
ReadyNoUrl == Text([type |-> JStr("ready"), livekit_room_name |-> JStr("room-1")])
ReadyBadUrl == Text([type |-> JStr("ready"), livekit_url |-> JNum("7")])
SttResult == Text([type |-> JStr("stt_result"), transcript |-> JStr("hello"),
                   is_final |-> JBool("true"), is_speech_final |-> JBool("true"),
                   confidence |-> JNum("0.9"), extra |-> JStr("ignored")])
SttNoConfidence == Text([type |-> JStr("stt_result"), transcript |-> JStr("hello"),
                         is_final |-> JBool("true"), is_speech_final |-> JBool("true")])
ErrorFrame == Text([type |-> JStr("error"), message |-> JStr("boom")])
MessageFrame == Text([type |-> JStr("message"),
                      message |-> JObj([identity |-> JStr("user-1"), topic |-> JStr("chat"),
                                        room |-> JStr("room-1"), timestamp |-> JNum("1"),
                                        message |-> JStr("hey")])])
MessageNoIdentity == Text([type |-> JStr("message"),
                           message |-> JObj([topic |-> JStr("chat"), room |-> JStr("room-1"),
                                             timestamp |-> JNum("1")])])
ParticipantLeft == Text([type |-> JStr("participant_disconnected"),
                         participant |-> JObj([identity |-> JStr("user-1"),
                                               room |-> JStr("room-1"),
                                               timestamp |-> JNum("2")])])
PlaybackComplete == Text([type |-> JStr("tts_playback_complete"), timestamp |-> JNum("3")])
UnknownKind == Text([type |-> JStr("unknown_kind")])
NoType == Text([message |-> JStr("boom")])
NotJson == [kind |-> "text", data |-> TextInvalid]
NotObject == [kind |-> "text", data |-> TextScalar]
Audio1 == [kind |-> "binary", data |-> [bytes |-> "pcm-1"]]
Audio2 == [kind |-> "binary", data |-> [bytes |-> "pcm-2"]]
NoData == [j |-> "none", o |-> <<>>]
End(k) == [kind |-> k, data |-> NoData]
Ping == [kind |-> "ping", data |-> NoData]

WellFormed == {ReadyRoom1, ReadyNoRoom, SttResult, ErrorFrame, MessageFrame,
               ParticipantLeft, PlaybackComplete}
Undecodable == {NotJson, NotObject, ReadyNoUrl, ReadyBadUrl, SttNoConfidence,
                MessageNoIdentity}
Unrouted == {UnknownKind, NoType}
EndFrames == {End(k) : k \in EndKinds}

\* Configuration bundles handed to connect().
Cfg(audio, stt, tts) == [audio |-> audio, stt_config |-> stt, tts_config |-> tts,
                         livekit |-> None]
InvalidCfgs == {Cfg("true", None, "tts"), Cfg("true", "stt", None), Cfg("true", None, None)}

\* Send calls.
Speak(text) == [op |-> "send_speak", text |-> text, flush |-> "true",
                allow_interruption |-> "true"]
ClearCall == [op |-> "send_clear"]
MessageCall == [op |-> "send_message", message |-> "note", role |-> "user",
                topic |-> "messages", debug |-> None]
AudioCall(b) == [op |-> "send_audio", audio_data |-> b]
SendOps == {"send_speak", "send_clear", "send_message", "send_audio"}

\* ---------------------------------------------------------------- specifications
\* The session lifecycle under two concurrent host coroutines.
LifeFrames == {ReadyRoom1, SttResult} \cup EndFrames
LifeCfgs == {Cfg("true", "stt", "tts")} \cup InvalidCfgs
LifeSends == {Speak("hi"), ClearCall, MessageCall, AudioCall("pcm-9")}

Next ==
    \/ \E s \in {"ready"}, h \in {"async_ret"} : Register(s, h)
    \/ \E h \in HostTasks, cfg \in LifeCfgs : ConnectCall(h, cfg)
    \/ \E h \in HostTasks, how \in {"ok", "open_failed", "send_failed"} : ConnectResume(h, how)
    \/ \E h \in HostTasks : DisconnectCall(h)
    \/ \E h \in HostTasks : DisconnectAwaited(h)
    \/ \E h \in HostTasks, ok \in BOOLEAN : DisconnectWsClosed(h, ok)
    \/ \E h \in HostTasks, ok \in BOOLEAN : DisconnectSessClosed(h, ok)
    \/ \E h \in HostTasks : DisconnectHttpClosed(h)
    \/ \E h \in HostTasks, call \in LifeSends : Send(h, call)
    \/ \E t \in TaskIds : LoopStart(t)
    \/ \E t \in TaskIds, f \in LifeFrames : LoopRecv(t, f)
    \/ \E t \in TaskIds : LoopCallbackDone(t)
    \/ \E t \in TaskIds : LoopCancelled(t)

Spec == Init /\ [][Next]_vars

\* The lifecycle under the scheduling of the asyncio event loop: a task
\* that can run is run (a receive task takes its first step, a cancelled
\* task is resumed with CancelledError), and an await of disconnect()
\* whose awaitable has settled (the receive task ended, a close returned or
\* raised) is resumed.
Fairness ==
    /\ \A t \in TaskIds : WF_vars(LoopStart(t)) /\ WF_vars(LoopCancelled(t))
    /\ \A h \in HostTasks :
          /\ WF_vars(DisconnectAwaited(h))
          /\ WF_vars(\E ok \in BOOLEAN : DisconnectWsClosed(h, ok))
          /\ WF_vars(\E ok \in BOOLEAN : DisconnectSessClosed(h, ok))
          /\ WF_vars(DisconnectHttpClosed(h))

SpecFair == Spec /\ Fairness

\* The dispatch of inbound frames to handlers: one host coroutine connects,
\* handlers are registered at any time, and the loop reads frames of every
\* kind.
DispatchFrames == WellFormed \cup Undecodable \cup Unrouted \cup {Audio1, Ping, End("closed")}
\* The registrations made: a raising plain function for every slot, and for
\* two slots also a raising coroutine function, a returning function, None.
DispatchRegs == {<<s, "sync_raise">> : s \in Slots}
                    \cup ({"stt_result", "audio"} \X {"async_raise", "sync_ret", None})

NextDispatch ==
    \/ \E r \in DispatchRegs : Register(r[1], r[2])
    \/ ConnectCall("h1", Cfg("false", None, None))
    \/ ConnectResume("h1", "ok")
    \/ \E t \in TaskIds : LoopStart(t)
    \/ \E t \in TaskIds, f \in DispatchFrames : LoopRecv(t, f)
    \/ \E t \in TaskIds : LoopCallbackDone(t)

SpecDispatch == Init /\ [][NextDispatch]_vars

\* The construction of a client for a URL: a scheme, or none, followed by
\* up to MaxUrlTail characters.
UrlChars == {"a", "/", "w", "s", ":"}
UrlSchemes == {WssScheme, WsScheme, HttpsScheme, <<>>}
UrlTails == UNION {[1..n -> UrlChars] : n \in 0..MaxUrlTail}
Urls == {s \o t : s \in UrlSchemes, t \in UrlTails}

InitUrl ==
    /\ InitSession
    /\ url \in Urls
    /\ base_url = None
    /\ NoOutbound

NextUrl == DeriveBaseUrl

SpecUrl == InitUrl /\ [][NextUrl]_vars

\* The handshake of one session: a single host coroutine connects, sends
\* and disconnects, an on_ready handler is registered at any time, and the
\* server answers with ready frames, one of them without livekit_url.
HandshakeFrames == {ReadyNoUrl, ReadyRoom1, SttResult, End("closed")}

NextHandshake ==
    \/ \E h \in Handlers : Register("ready", h)
    \/ ConnectCall("h1", Cfg("true", "stt", "tts"))
    \/ ConnectResume("h1", "ok")
    \/ DisconnectCall("h1")
    \/ DisconnectAwaited("h1")
    \/ DisconnectWsClosed("h1", TRUE)
    \/ DisconnectSessClosed("h1", TRUE)
    \/ DisconnectHttpClosed("h1")
    \/ \E call \in LifeSends : Send("h1", call)
    \/ \E t \in TaskIds : LoopStart(t)
    \/ \E t \in TaskIds, f \in HandshakeFrames : LoopRecv(t, f)
    \/ \E t \in TaskIds : LoopCallbackDone(t)
    \/ \E t \in TaskIds : LoopCancelled(t)

SpecHandshake == Init /\ [][NextHandshake]_vars

\* The encoding of outbound control messages: a message of one of the four
\* classes, with each optional field set or None, is dumped and validated
\* back.
Flags == {"true", "false", None}
OutMessages ==
    {ConfigModel(a, s, t, l) : a \in Flags, s \in {"stt", None}, t \in {"tts", None},
                               l \in {"livekit", None}}
    \cup {SpeakModel(x, f, i) : x \in {"hi", ""}, f \in Flags, i \in Flags}
    \cup {ClearModel}
    \cup {SendMessageModel("note", r, t, d) : r \in {"user", "assistant"},
                                              t \in {"messages", None}, d \in {"debug", None}}

InitCodec ==
    /\ InitSession
    /\ url = SessionUrl
    /\ base_url = BaseUrl(url)
    /\ out_message \in OutMessages
    /\ out_data = NoMsg
    /\ out_decoded = Failed

NextCodec == EncodeOutbound \/ DecodeOutbound

SpecCodec == InitCodec /\ [][NextCodec]_vars

\* A session whose participant_disconnected handler disconnects, as the
\* example server's does: one host coroutine connects and sends, the
\* handlers are registered at any time, and each close that disconnect()
\* awaits returns or raises.
CallbackFrames == {ReadyRoom1, ParticipantLeft, SttResult, End("closed"), End("eof")}
CallbackRegs == {<<"participant_disconnected", "async_disconnect">>,
                 <<"stt_result", "async_ret">>}

NextCallback ==
    \/ \E r \in CallbackRegs : Register(r[1], r[2])
    \/ ConnectCall("h1", Cfg("true", "stt", "tts"))
    \/ \E how \in {"ok", "open_failed", "send_failed"} : ConnectResume("h1", how)
    \/ Send("h1", Speak("hi"))
    \/ \E t \in TaskIds : LoopStart(t)
    \/ \E t \in TaskIds, f \in CallbackFrames : LoopRecv(t, f)
    \/ \E t \in TaskIds : CallbackDone(t)
    \/ \E t \in TaskIds : CallbackDisconnectCall(t)
    \/ \E t \in TaskIds : CallbackDisconnectSelfAwaited(t)
    \/ \E ok \in BOOLEAN : DisconnectWsClosed("cb", ok)
    \/ \E ok \in BOOLEAN : DisconnectSessClosed("cb", ok)
    \/ DisconnectHttpClosed("cb")
    \/ \E t \in TaskIds : CallbackDisconnectDone(t)

SpecCallback == Init /\ [][NextCallback]_vars

\* ---------------------------------------------------------------- example server
\* session_key: f"{sayna_url}::{room_name}"
SessionKey(sayna_url, room_name) == sayna_url \o <<":", ":">> \o room_name

\* create_sayna_session from the return of `await client.connect(...)` on:
\* it resumes in the step in which connect() returns or raises and reads
\* client.ready without suspending in between.  connectErr is what
\* connect() raised ("ok": it returned), isReady the value of client.ready
\* at that point, stored the keys of the sessions map.
\*   raises  what the function raises, None when it returns the client (an
\*           exception raised by disconnect() would take the place of
\*           RuntimeError)
\*   closes  it has called client.disconnect() first
\*   stored  the keys of the sessions map afterwards
CreateSaynaSession(connectErr, isReady, stored, key) ==
    IF connectErr # "ok"
    THEN [raises |-> connectErr, closes |-> FALSE, stored |-> stored]
    ELSE IF ~isReady
    THEN [raises |-> "RuntimeError", closes |-> TRUE, stored |-> stored]
    ELSE [raises |-> None, closes |-> FALSE, stored |-> stored \cup {key}]

\* ================================================================ claims
\* A step in which a host coroutine calls a send operation, which runs to
\* its end (it returns or raises) within the step.
SendStep ==
    /\ ncalls' = ncalls + 1
    /\ res'.n = ncalls'
    /\ res'.call.op \in SendOps

\* What a send leaves alone: the session attributes and the transports.
SendLeavesSession == UNCHANGED <<clientVars, wsOpen, sessOpen, httpClosed>>

\* C1: in every reachable state, ready implies connected.
ReadyImpliesConnected == ready => connected

\* C2: a send operation called while the session is not connected raises
\* SaynaNotConnectedError, writes no frame and changes no session state.
SendNotConnected ==
    [][SendStep /\ ~connected =>
          /\ res'.err = "SaynaNotConnectedError"
          /\ sent' = sent
          /\ SendLeavesSession]_vars

\* C2 witness: a send refused after the receive loop ended on a transport
\* error or close.
SendNotConnectedSeen ==
    /\ res.call.op \in SendOps
    /\ res.err = "SaynaNotConnectedError"
    /\ res.n = ncalls
    /\ ~connected /\ ~ready
    /\ tpc[1] = "done"
    /\ Len(consumed) > 0 /\ consumed[Len(consumed)].frame.kind \in EndKinds

\* C3: a send operation called while the session is connected and not ready
\* raises SaynaNotReadyError, writes no frame and changes no session state.
SendNotReady ==
    [][SendStep /\ connected /\ ~ready =>
          /\ res'.err = "SaynaNotReadyError"
          /\ res'.err # "SaynaNotConnectedError"
          /\ sent' = sent
          /\ SendLeavesSession]_vars

\* C3 witness: a send refused between the config message and the ready message.
SendNotReadySeen ==
    /\ res.call.op \in SendOps
    /\ res.err = "SaynaNotReadyError"
    /\ res.n = ncalls
    /\ connected /\ ~ready
    /\ Len(sent) = 1

\* A step in which a host coroutine calls connect() with audio enabled and
\* a sub-config missing.
ConnectInvalidStep ==
    /\ ncalls' = ncalls + 1
    /\ \E h \in HostTasks :
          LET call == IF res'.n = ncalls' THEN res'.call ELSE hloc'[h].call
          IN  /\ hpc[h] = "idle"
              /\ res'.n = ncalls' \/ hloc'[h].n = ncalls'
              /\ call.op = "connect"
              /\ call.cfg.audio = "true"
              /\ call.cfg.stt_config = None \/ call.cfg.tts_config = None

\* No session created, no WebSocket opened, no frame written, no receive
\* task started, and the session attributes as they were.
NoTransportTouched ==
    UNCHANGED <<clientVars, nextId, sessOpen, wsOpen, sent, tpc>>

\* C4 as claimed: every connect() with audio=True and a sub-config missing
\* raises SaynaValidationError and touches no transport.
ConnectInvalidAlwaysRaises ==
    [][ConnectInvalidStep =>
          /\ res'.n = ncalls'
          /\ res'.err = "SaynaValidationError"
          /\ NoTransportTouched]_vars

\* C4 amended: such a connect() touches no transport and leaves connected
\* and ready alone; it raises SaynaValidationError when the session is not
\* connected, and returns as the already-connected no-op when it is.
ConnectInvalidRaisesUnlessConnected ==
    [][ConnectInvalidStep =>
          /\ res'.n = ncalls'
          /\ res'.call.op = "connect"
          /\ res'.err = IF connected THEN "ok" ELSE "SaynaValidationError"
          /\ NoTransportTouched]_vars

\* C4 witness: a fresh client refused connect() for a missing tts_config.
ConnectInvalidSeen ==
    /\ res.call.op = "connect"
    /\ res.err = "SaynaValidationError"
    /\ res.n = ncalls
    /\ res.call.cfg.tts_config = None
    /\ res.call.cfg.stt_config # None
    /\ nextId = 1 /\ session = 0 /\ ws = 0
    /\ ~connected /\ ~ready

\* The attributes a ready frame of the inputs carries.
ReadyCarries(f) ==
    IF f = ReadyRoom1
    THEN [livekit_room_name |-> "room-1", livekit_url |-> "wss://x",
          sayna_participant_identity |-> "sayna-ai", sayna_participant_name |-> "Sayna AI"]
    ELSE [livekit_room_name |-> None, livekit_url |-> "wss://y",
          sayna_participant_identity |-> None, sayna_participant_name |-> None]

\* A step in which a receive loop reads frame f.
Reads(f) ==
    /\ Len(consumed') = Len(consumed) + 1
    /\ consumed'[Len(consumed')].frame = f

\* C5: when the receive loop reads a well-formed ready frame, ready becomes
\* true and the four session attributes become the values the frame carries.
ReadySetsSession ==
    [][\A f \in {ReadyRoom1, ReadyNoRoom} :
          Reads(f) => ready' /\ fields' = ReadyCarries(f)]_vars

\* C5 witness: a connected session made ready by the frame for "room-1".
ReadySetsSessionSeen ==
    /\ Len(consumed) > 0 /\ consumed[Len(consumed)].frame = ReadyRoom1
    /\ connected /\ ready
    /\ fields.livekit_room_name = "room-1"
    /\ fields.sayna_participant_name = "Sayna AI"

\* The frame a send call is to put on the socket, read off its arguments.
Carries(frame, call) ==
    CASE call.op = "send_speak" ->
           /\ frame.kind = "text"
           /\ frame.data.type = "speak"
           /\ frame.data.text = call.text
      [] call.op = "send_clear" ->
           /\ frame.kind = "text"
           /\ frame.data = [type |-> "clear"]
      [] call.op = "send_message" ->
           /\ frame.kind = "text"
           /\ frame.data.type = "send_message"
           /\ frame.data.message = call.message
           /\ frame.data.role = call.role
      [] call.op = "send_audio" ->
           /\ frame.kind = "binary"
           /\ frame.data = [bytes |-> call.audio_data]

\* C6: a send operation called in the Ready state returns without raising
\* and writes exactly one frame, of its kind and with the caller's payload,
\* on the session's socket; the session is unchanged.
SendWhenReady ==
    [][SendStep /\ connected /\ ready =>
          /\ res'.err = "ok"
          /\ Len(sent') = Len(sent) + 1
          /\ SubSeq(sent', 1, Len(sent)) = sent
          /\ Carries(sent'[Len(sent')], res'.call)
          /\ SendLeavesSession]_vars

\* A step in which a host coroutine calls disconnect().
DisconnectStep ==
    /\ ncalls' = ncalls + 1
    /\ \E h \in HostTasks :
          /\ hpc[h] = "idle"
          /\ IF res'.n = ncalls' THEN res'.call.op = "disconnect"
             ELSE hloc'[h].n = ncalls' /\ hloc'[h].call.op = "disconnect"

\* C7: disconnect() called while the session is not connected returns at
\* once without raising, performs no operation on the WebSocket transport
\* (no socket or session closed, no task cancelled, no frame written) and
\* changes no session state.
DisconnectIdempotent ==
    [][DisconnectStep /\ ~connected =>
          /\ res'.n = ncalls'
          /\ res'.call.op = "disconnect"
          /\ res'.err = "ok"
          /\ UNCHANGED <<clientVars, regVars, nextId, wsOpen, sessOpen, sent, tpc, lws,
                         cancelReq>>]_vars

\* C7 witness: disconnect() right after a disconnect() that closed a
\* session, the second one a no-op.
DisconnectTwiceSeen ==
    /\ res.call.op = "disconnect"
    /\ res.err = "ok"
    /\ res.n = ncalls
    /\ ncalls = 3 /\ nsends = 0
    /\ nextId = 2 /\ sessOpen = {} /\ wsOpen = {}
    /\ ~connected /\ ~ready /\ ws = 0 /\ session = 0
    /\ \A h \in HostTasks : hpc[h] = "idle"

\* The task that read the last frame consumed.
Reader == consumed[Len(consumed)].task

\* C8: when the receive loop observes a transport error or close (an ERROR
\* or CLOSED message, the end of the stream, an exception from the read),
\* the loop ends and leaves connected and ready false.
LoopEndClearsFlags ==
    [][\A f \in EndFrames :
          Reads(f) => /\ tpc'[Reader'] = "done"
                      /\ ~connected'
                      /\ ~ready']_vars

\* C8 witness: a Ready session whose loop then read an ERROR message.
LoopEndFromReadySeen ==
    /\ Len(consumed) = 2
    /\ consumed[1].frame = ReadyRoom1
    /\ consumed[2].frame = End("error")
    /\ consumed[1].task = consumed[2].task
    /\ tpc[Reader] = "done"
    /\ ~connected /\ ~ready
    /\ fields.livekit_room_name = "room-1"

\* The slot an inbound frame of the inputs is for, read off the frame.
SlotOf(f) == IF f.kind = "binary" THEN "audio" ELSE f.data.o["type"].v

\* The frames of the inputs that have a handler slot.
Deliverable == WellFormed \cup {Audio1, Audio2}

\* The step delivers frame g: one invocation of the handler registered for
\* its slot is added, for this frame.
Delivers(g) ==
    /\ Len(invoked') = Len(invoked) + 1
    /\ SubSeq(invoked', 1, Len(invoked)) = invoked
    /\ invoked'[Len(invoked')].slot = SlotOf(g)
    /\ invoked'[Len(invoked')].handler = cb[SlotOf(g)]
    /\ invoked'[Len(invoked')].n = Len(consumed')
    /\ invoked'[Len(invoked')].task = Reader'

\* C9: a text frame that fails to decode is dropped: no handler is called,
\* the loop goes on to wait for the next frame, connected, ready and the
\* session attributes stay; and the well-formed frame that follows it is
\* delivered to the handler of its slot.
DecodeFailureDropped ==
    [][/\ \A f \in Undecodable :
             Reads(f) => /\ invoked' = invoked
                         /\ tpc'[Reader'] = "recv"
                         /\ UNCHANGED <<connected, ready, fields>>
       /\ \A g \in Deliverable :
             /\ Reads(g)
             /\ Len(consumed) > 0
             /\ consumed[Len(consumed)].frame \in Undecodable
             /\ cb[SlotOf(g)] # None
             => Delivers(g)]_vars

\* C9 witness: a ready frame without livekit_url dropped, then a
\* transcript delivered by the same loop.
DecodeFailureThenDeliverySeen ==
    /\ Len(consumed) = 2
    /\ consumed[1].frame = ReadyNoUrl
    /\ consumed[2].frame = SttResult
    /\ consumed[1].task = consumed[2].task
    /\ Len(invoked) = 1
    /\ invoked[1].slot = "stt_result" /\ invoked[1].n = 2
    /\ invoked[1].arg.transcript = "hello"
    /\ connected /\ ~ready /\ fields = NoFields

\* A step in which a handler raises: a plain function called in the step,
\* or the coroutine the loop was suspended in.
HandlerRaises(i) ==
    /\ i \in 1..Len(invoked')
    /\ invoked'[i].outcome = "raised"
    /\ i \in 1..Len(invoked) => invoked[i].outcome = "running"

\* C10: an exception raised by a handler, plain or coroutine, of any slot,
\* does not end the loop and leaves connected as it was and ready as the
\* frame made it; and the next frame is delivered to its handler.
CallbackErrorIsolated ==
    [][/\ \A i \in 1..MaxFrames :
             HandlerRaises(i) =>
                 /\ tpc'[invoked'[i].task] = "recv"
                 /\ connected' = connected
                 /\ ready' = (ready \/ (invoked'[i].slot = "ready" /\ i > Len(invoked)))
       /\ \A g \in Deliverable :
             /\ Reads(g)
             /\ Len(invoked) > 0
             /\ invoked[Len(invoked)].outcome = "raised"
             /\ invoked[Len(invoked)].n = Len(consumed)
             /\ cb[SlotOf(g)] # None
             => Delivers(g)]_vars

\* C10 witness: the audio handler, a coroutine, raised; the transcript
\* that followed reached its handler, which raised as well; the loop waits
\* for the next frame.
CallbackErrorThenDeliverySeen ==
    /\ Len(invoked) = 2
    /\ invoked[1].slot = "audio" /\ invoked[1].handler = "async_raise"
    /\ invoked[1].outcome = "raised"
    /\ invoked[2].slot = "stt_result" /\ invoked[2].handler = "sync_raise"
    /\ invoked[2].outcome = "raised"
    /\ invoked[1].task = invoked[2].task
    /\ tpc[invoked[2].task] = "recv"
    /\ connected

\* C11: a text frame whose discriminator is none of the six known types, or
\* that has no discriminator, is dropped: no handler is called, the loop
\* goes on to wait for the next frame and the session is unchanged; the
\* frame that follows it is delivered.
UnknownTypeDropped ==
    [][/\ \A f \in Unrouted :
             Reads(f) => /\ invoked' = invoked
                         /\ tpc'[Reader'] = "recv"
                         /\ UNCHANGED clientVars
       /\ \A g \in Deliverable :
             /\ Reads(g)
             /\ Len(consumed) > 0
             /\ consumed[Len(consumed)].frame \in Unrouted
             /\ cb[SlotOf(g)] # None
             => Delivers(g)]_vars

\* C11 witness: a frame of type "unknown_kind" read with handlers
\* registered, none called, then an error message delivered by the same loop.
UnknownTypeThenDeliverySeen ==
    /\ Len(consumed) = 2
    /\ consumed[1].frame = UnknownKind
    /\ consumed[2].frame = ErrorFrame
    /\ consumed[1].task = consumed[2].task
    /\ Len(invoked) = 1
    /\ invoked[1].slot = "error" /\ invoked[1].n = 2
    /\ invoked[1].arg.message = "boom"
    /\ connected /\ tpc[Reader] = "recv"

\* C12: handler calls are serialized and in arrival order: a frame is read
\* only when no handler call is still running, and a handler call is
\* started only for the frame read in the same step, after all earlier ones.
CallbacksSerialized ==
    [][/\ Len(consumed') > Len(consumed) =>
             \A i \in 1..Len(invoked) : invoked[i].outcome # "running"
       /\ Len(invoked') > Len(invoked) =>
             /\ Len(invoked') = Len(invoked) + 1
             /\ Len(consumed') = Len(consumed) + 1
             /\ invoked'[Len(invoked')].n = Len(consumed')
             /\ \A i \in 1..Len(invoked) : invoked'[i].n < Len(consumed')]_vars

\* A step in which a host coroutine calls connect().
ConnectStep ==
    /\ ncalls' = ncalls + 1
    /\ \E h \in HostTasks :
          /\ hpc[h] = "idle"
          /\ IF res'.n = ncalls' THEN res'.call.op = "connect"
             ELSE hloc'[h].n = ncalls' /\ hloc'[h].call.op = "connect"

\* C13: connect() called while the session is connected returns at once
\* without raising: no session is created, no WebSocket opened, no config
\* message written, no receive task started, and connected, ready and the
\* session attributes stay as they were.
ConnectWhenConnectedNoop ==
    [][ConnectStep /\ connected =>
          /\ res'.n = ncalls'
          /\ res'.call.op = "connect"
          /\ res'.err = "ok"
          /\ NoTransportTouched
          /\ UNCHANGED <<receive_task, cancelReq, lws, httpClosed>>]_vars

\* C13 witness: a second connect() on a Ready session; one session, one
\* socket, one config message and one receive task exist.
ConnectWhenReadySeen ==
    /\ res.call.op = "connect" /\ res.err = "ok"
    /\ res.n = ncalls /\ ncalls = 2
    /\ connected /\ ready
    /\ nextId = 2 /\ sessOpen = {1} /\ wsOpen = {1}
    /\ Len(sent) = 1 /\ sent[1].data.type = "config"
    /\ tpc[1] = "recv" /\ \A t \in TaskIds \ {1} : tpc[t] = "none"

\* A step in which connect() ends with its WebSocket never opened: the
\* transport open failed.
OpenFailedStep ==
    \E h \in HostTasks :
        /\ hpc[h] = "c_open" /\ hpc'[h] = "idle"
        /\ hloc[h].obj \notin wsOpen'

\* C14: when the transport open fails, connect() raises
\* SaynaConnectionError with the transport's exception as its cause; the
\* session is then not connected and not ready, no config message was
\* written and no receive task started.
OpenFailureRaises ==
    [][OpenFailedStep =>
          /\ res'.call.op = "connect"
          /\ res'.err = "SaynaConnectionError"
          /\ res'.cause = "ws_connect: ClientError"
          /\ ~connected' /\ ~ready'
          /\ sent' = sent
          /\ UNCHANGED <<tpc, receive_task>>]_vars

\* A step in which a disconnect() that went through its cleanup returns
\* without raising.
DisconnectCompletes ==
    \E h \in HostTasks :
        /\ hpc[h] = "d_http" /\ hpc'[h] = "idle"
        /\ res'.call.op = "disconnect" /\ res'.err = "ok"

\* C15: when disconnect() completes on a connected session, and when the
\* receive loop ends on a transport error or close, the session is reset:
\* connected and ready are false and the four session attributes are None.
SessionResetOnClose ==
    [][(DisconnectCompletes \/ \E f \in EndFrames : Reads(f)) =>
          /\ ~connected' /\ ~ready'
          /\ fields' = NoFields]_vars

\* C16: once the session is Ready, no inbound frame and no send operation
\* changes the four session attributes.
FieldsFrozenWhenReady ==
    [][ready /\ (Len(consumed') = Len(consumed) + 1 \/ SendStep) =>
          fields' = fields]_vars

\* The well-formed ready frames of the inputs.
ReadyFrames == {ReadyRoom1, ReadyNoRoom}

\* No well-formed ready frame has been read so far.
NoReadyYet == \A i \in 1..Len(consumed) : consumed[i].frame \notin ReadyFrames

\* C17: a new client is not connected and not ready and its four session
\* attributes are None; they stay None, and ready stays false, through
\* connect() and every inbound frame until the first ready frame is read.
UnsetUntilReady ==
    /\ ncalls = 0 => ~connected /\ ~ready /\ fields = NoFields
    /\ NoReadyYet => ~ready /\ fields = NoFields

\* C17 witness: a connected session that has read a transcript and a ready
\* frame without livekit_url, and is still not ready, its attributes None.
UnsetAfterFramesSeen ==
    /\ Len(consumed) = 2
    /\ consumed[1].frame = SttResult
    /\ consumed[2].frame = ReadyNoUrl
    /\ connected /\ ~ready
    /\ fields = NoFields

\* A step in which a call of disconnect() ends, by return or by raise.
DisconnectEnds ==
    /\ res'.n # res.n
    /\ res'.call.op = "disconnect"

\* C18: every call of disconnect(), in whatever state it was made and
\* whether or not a cleanup step failed, ends with the REST client closed.
DisconnectClosesHttp ==
    [][DisconnectEnds => httpClosed']_vars

\* A step in which a disconnect() ends one of whose cleanup steps (closing
\* the WebSocket, closing the session) had failed.
DisconnectEndsAfterFailure ==
    \E h \in HostTasks :
        /\ hpc[h] = "d_http" /\ hpc'[h] = "idle"
        /\ hloc[h].err # "ok"

\* C19: a failed cleanup step does not abort the remaining ones: when such
\* a disconnect() ends, the client session is closed, no socket or session
\* handle is held, and connected and ready are false.
DisconnectBestEffort ==
    [][DisconnectEndsAfterFailure =>
          /\ ws' = 0 /\ session' = 0
          /\ session # 0 => session \notin sessOpen'
          /\ ~connected' /\ ~ready']_vars

\* ---------------------------------------------------------------------
\* C20

\* The step is a register_on_* call: the registry changes and nothing is
\* delivered, queued or replayed by it.
RegisterStep ==
    /\ regVars' # regVars
    /\ UNCHANGED <<clientVars, procVars, envVars, histVars>>

\* C20: the handler a frame of a slot is delivered to is the one most
\* recently registered for that slot when the frame is dispatched. After
\* any register_on_* call the slot holds the handler just registered and
\* the other slots keep theirs; the call itself invokes nothing; and a
\* frame read by the loop is delivered once, to the handler its slot holds
\* at that moment, or to nobody when the slot is empty.
LatestHandlerInvoked ==
    [][/\ lastReg'.slot # None => cb'[lastReg'.slot] = lastReg'.handler
       /\ cb' # cb =>
             /\ RegisterStep
             /\ \A s \in Slots \ {lastReg'.slot} : cb'[s] = cb[s]
       /\ \A g \in Deliverable :
             Reads(g) => IF cb[SlotOf(g)] = None
                         THEN invoked' = invoked
                         ELSE Delivers(g)]_vars

\* C20 witness: on one connection two transcripts were delivered, the first
\* to the handler registered before it and the second to the handler that
\* replaced it, which is the one now registered.
HandlerReplacedSeen ==
    /\ Len(invoked) = 2
    /\ invoked[1].slot = "stt_result" /\ invoked[2].slot = "stt_result"
    /\ invoked[1].task = invoked[2].task
    /\ invoked[1].n = 1 /\ invoked[2].n = 2
    /\ invoked[1].handler = "sync_ret"
    /\ invoked[2].handler = "async_raise"
    /\ cb["stt_result"] = "async_raise"
    /\ lastReg = [slot |-> "stt_result", handler |-> "async_raise"]

\* ---------------------------------------------------------------------
\* C21

\* A step of a connect() call a host coroutine has made.
InConnect ==
    \/ ConnectStep
    \/ \E h \in HostTasks : hpc[h] = "c_open" /\ hpc'[h] = "idle"

\* An outbound frame that is a config message.
IsConfig(frame) == frame.kind = "text" /\ frame.data.type = "config"

\* C21: there is no automatic reconnection.  A session is created, a
\* WebSocket opened and a config message written only by a connect() call
\* of the host, each call opening at most the one WebSocket of the session
\* it created; and once a receive loop has observed a transport close or
\* error, connected stays false until the host calls connect() again.
NoAutoReconnect ==
    [][/\ nextId' # nextId => ConnectStep /\ nextId' = nextId + 1
       /\ ~(wsOpen' \subseteq wsOpen) =>
             /\ InConnect
             /\ \E h \in HostTasks :
                   /\ hpc[h] = "c_open" /\ hpc'[h] = "idle"
                   /\ wsOpen' = wsOpen \cup {hloc[h].obj}
                   /\ hloc[h].obj \notin wsOpen
       /\ (Len(sent') > Len(sent) /\ IsConfig(sent'[Len(sent')])) => InConnect
       /\ dropped' => ~connected']_vars

\* ---------------------------------------------------------------------
\* C23

\* The part of a URL after a scheme of n characters, a trailing /ws removed.
WithoutWsEndpoint(u, n) ==
    LET rest == SubSeq(u, n + 1, Len(u))
    IN  IF EndsWith(rest, WsEndpoint) THEN SubSeq(rest, 1, Len(rest) - 3) ELSE rest

\* C23: the base URL of a client is its WebSocket URL with the scheme
\* wss:// replaced by https:// or ws:// by http://, and a trailing /ws path
\* segment removed; a URL with neither scheme is kept as it is.
BaseUrlDerived ==
    base_url # None =>
        base_url = IF StartsWith(url, WssScheme)
                   THEN HttpsScheme \o WithoutWsEndpoint(url, 6)
                   ELSE IF StartsWith(url, WsScheme)
                   THEN HttpScheme \o WithoutWsEndpoint(url, 5)
                   ELSE url

\* ---------------------------------------------------------------------
\* C22

\* A step in which the connect() call of host coroutine h returns without
\* raising, having gone through the transport open.
ConnectReturns(h) ==
    /\ hpc[h] = "c_open" /\ hpc'[h] = "idle"
    /\ res'.n = hloc[h].n /\ res'.err = "ok"

\* The receive loops of all sessions but session id have ended, or were
\* never started.
OthersEnded(id) == \A t \in TaskIds \ {id} : tpc[t] \in {"none", "done"}

\* The session was closed: a receive loop observed a transport close or
\* error and the session is not connected, or the last call made on the
\* client was a disconnect() and it has ended.
SessionWasClosed ==
    \/ dropped /\ ~connected
    \/ /\ res.call.op = "disconnect" /\ res.n = ncalls
       /\ \A h \in HostTasks : hpc[h] = "idle"

\* C22: a session is re-established by a fresh connect().  Called with a
\* valid configuration once the session was closed, connect() creates a new
\* session and goes on to open its transport; when such a call returns, the
\* earlier receive loops having ended, the new WebSocket is open and held,
\* exactly the config message has been written on it, a new receive task
\* has been started, and the session is connected and not ready; ready then
\* becomes true only when that task reads a ready frame.
FreshConnectReestablishes ==
    [][/\ ConnectStep /\ SessionWasClosed =>
             \E h \in HostTasks :
                 /\ hpc[h] = "idle"
                 /\ res'.n = ncalls' \/ hloc'[h].n = ncalls'
                 /\ LET call == IF res'.n = ncalls' THEN res'.call ELSE hloc'[h].call
                    IN  ~ConfigInvalid(call.cfg) =>
                            /\ hpc'[h] = "c_open"
                            /\ hloc'[h].obj = nextId
                            /\ session' = nextId
                            /\ nextId \in sessOpen'
                            /\ nextId' = nextId + 1
       /\ \A h \in HostTasks :
             ConnectReturns(h) /\ hloc[h].obj > 1 /\ OthersEnded(hloc[h].obj) =>
                 LET id == hloc[h].obj
                 IN  /\ ws' = id /\ id \in wsOpen' /\ id \notin wsOpen
                     /\ Len(sent') = Len(sent) + 1
                     /\ IsConfig(sent'[Len(sent')]) /\ sent'[Len(sent')].ws = id
                     /\ tpc[id] = "none" /\ tpc'[id] = "start"
                     /\ receive_task' = id
                     /\ connected' /\ ~ready'
       /\ ready' /\ ~ready /\ ws # 0 /\ OthersEnded(ws) =>
             \E f \in ReadyFrames : Reads(f) /\ Reader' = ws]_vars

\* ---------------------------------------------------------------------
\* C24

\* A step in which disconnect() resumes from the close of a WebSocket or of
\* an aiohttp session.
DisconnectCloses ==
    \E h \in HostTasks :
        /\ hpc[h] \in {"d_wsclose", "d_sessclose"}
        /\ hpc'[h] # hpc[h]

\* C24: disconnect() closes a transport only after the receive loop started
\* for it has ended: no step of disconnect() closes a WebSocket whose
\* receive task is still to run or running.
NoCloseWhileReading ==
    [][\A w \in TaskIds :
          DisconnectCloses /\ w \in wsOpen /\ w \notin wsOpen' =>
              tpc[w] \in {"none", "done"}]_vars

\* ---------------------------------------------------------------------
\* C25

\* C25: a disconnect() that has cancelled a receive task and awaits it
\* eventually ends; and when it returns, that task has ended, its WebSocket
\* is closed, and connected and ready are false.
DisconnectDuringLoopCompletes ==
    /\ \A h \in HostTasks : (hpc[h] = "d_await") ~> (hpc[h] = "idle")
    /\ [][\A h \in HostTasks :
             /\ hpc[h] = "d_http" /\ hpc'[h] = "idle"
             /\ hloc[h].err = "ok"
             /\ hloc[h].task # 0
             => /\ tpc'[hloc[h].task] = "done"
                /\ hloc[h].task \notin wsOpen'
                /\ ~connected' /\ ~ready']_vars

\* ---------------------------------------------------------------------
\* C26

\* A step in which the connect() call of host coroutine h ends with its
\* WebSocket opened.
ConnectOpened(h) ==
    /\ hpc[h] = "c_open" /\ hpc'[h] = "idle"
    /\ hloc[h].obj \in wsOpen' /\ hloc[h].obj \notin wsOpen

\* C26: a connect() that opens its transport either writes the config
\* message on it, starts the receive task and returns, or, the write having
\* failed, writes nothing, starts no task and raises SaynaConnectionError
\* with connected false.  On every transport the first frame written is a
\* config message and no later one is; a receive task is started only in
\* the step that has written the config message of its transport.
ConfigSentFirst ==
    [][/\ \A h \in HostTasks :
             ConnectOpened(h) =>
                 LET id == hloc[h].obj
                 IN  /\ res'.n = hloc[h].n
                     /\ \/ /\ res'.err = "ok"
                           /\ Len(sent') = Len(sent) + 1
                           /\ SubSeq(sent', 1, Len(sent)) = sent
                           /\ IsConfig(sent'[Len(sent')])
                           /\ sent'[Len(sent')].ws = id
                           /\ tpc[id] = "none" /\ tpc'[id] = "start"
                        \/ /\ res'.err = "SaynaConnectionError"
                           /\ sent' = sent
                           /\ tpc'[id] = "none"
                           /\ ~connected'
       /\ \A i \in 1..Len(sent') :
             IsConfig(sent'[i]) <=> \A j \in 1..(i - 1) : sent'[j].ws # sent'[i].ws
       /\ \A t \in TaskIds :
             tpc[t] = "none" /\ tpc'[t] # "none" =>
                 /\ Len(sent') = Len(sent) + 1
                 /\ IsConfig(sent'[Len(sent')])
                 /\ sent'[Len(sent')].ws = t]_vars

\* C26 witness: a second session opened after the first was used and
\* dropped: on each transport the config message came first, and the
\* receive task of the second has just been started.
ConfigFirstOnBothSeen ==
    /\ Len(sent) = 3
    /\ IsConfig(sent[1]) /\ sent[1].ws = 1
    /\ ~IsConfig(sent[2]) /\ sent[2].ws = 1
    /\ IsConfig(sent[3]) /\ sent[3].ws = 2
    /\ tpc[1] = "done" /\ tpc[2] = "start"
    /\ res.call.op = "connect" /\ res.err = "ok"
    /\ connected /\ ~ready

\* ---------------------------------------------------------------------
\* C27

\* C27: an inbound frame is routed to the slot of its own kind and to no
\* other.  A decoded text message is handed once to the handler registered
\* for its discriminator, as the message of that type; the data of a binary
\* frame is handed once, as it came, to the audio handler.  When the slot
\* is empty no handler at all is called, nothing is raised, and the loop
\* goes on to the next frame with the connection as it was.
RoutedToOwnSlot ==
    [][\A g \in Deliverable :
          Reads(g) =>
              IF cb[SlotOf(g)] = None
              THEN /\ invoked' = invoked
                   /\ tpc'[Reader'] = "recv"
                   /\ connected' = connected
              ELSE /\ Delivers(g)
                   /\ IF g.kind = "binary"
                      THEN invoked'[Len(invoked')].arg = g.data
                      ELSE invoked'[Len(invoked')].arg.type = SlotOf(g)]_vars

\* C27 witness: with handlers registered for transcripts and audio, a
\* binary frame went to the audio handler alone, with its bytes, and the
\* error message after it, having no handler, was discarded by the same loop.
AudioRoutedErrorDiscardedSeen ==
    /\ Len(consumed) = 2
    /\ consumed[1].frame = Audio1
    /\ consumed[2].frame = ErrorFrame
    /\ consumed[1].task = consumed[2].task
    /\ cb["stt_result"] # None /\ cb["audio"] # None /\ cb["error"] = None
    /\ Len(invoked) = 1
    /\ invoked[1].slot = "audio" /\ invoked[1].n = 1
    /\ invoked[1].arg = [bytes |-> "pcm-1"]
    /\ connected /\ tpc[Reader] = "recv"

\* ---------------------------------------------------------------------
\* C28

\* The receive tasks that have been created and have not ended.
LiveTasks == {t \in TaskIds : tpc[t] \in {"start", "recv", "in_cb", "in_disc"}}

\* C28: there is a single reader per session: at any time at most one
\* receive task of the client is alive, and every inbound frame consumed
\* was read by the receive task of the connection it arrived on.
SingleReader ==
    /\ Cardinality(LiveTasks) <= 1
    /\ \A i \in 1..Len(consumed) : lws[consumed[i].task] = consumed[i].task

\* ---------------------------------------------------------------------
\* C29

\* A receive loop is suspended inside a coroutine handler.
InCallback == \E t \in TaskIds : tpc[t] = "in_cb"

\* C29: a suspended callback does not block the send operations: a send
\* called while the session is connected and ready and a receive loop is
\* suspended inside a coroutine handler returns without raising and writes
\* its frame, the loop staying suspended in the handler.
SendWhileInCallback ==
    [][SendStep /\ connected /\ ready /\ InCallback =>
          /\ res'.err = "ok"
          /\ Len(sent') = Len(sent) + 1
          /\ SubSeq(sent', 1, Len(sent)) = sent
          /\ Carries(sent'[Len(sent')], res'.call)
          /\ tpc' = tpc]_vars

\* ---------------------------------------------------------------------
\* C30

\* The session is connected and not ready and the frame read last is the
\* ready frame without livekit_url.
AfterReadyNoUrl ==
    /\ connected /\ ~ready
    /\ Len(consumed) > 0
    /\ consumed[Len(consumed)].frame = ReadyNoUrl

\* C30: a ready frame without livekit_url read by a session that is
\* connected, not ready and has its session attributes unset is dropped:
\* no handler is called, the loop waits for the next frame, the session
\* stays connected and not ready with the attributes unset, every send
\* operation would be refused with SaynaNotReadyError, and a send called
\* after the frame is refused with it and writes nothing.
ReadyWithoutUrlDropped ==
    [][/\ Reads(ReadyNoUrl) /\ connected /\ ~ready /\ fields = NoFields =>
             /\ invoked' = invoked
             /\ tpc'[Reader'] = "recv"
             /\ connected' /\ ~ready'
             /\ fields' = NoFields
             /\ \A call \in LifeSends :
                    SendOp(call, connected', ready', wsOpen', ws').err = "SaynaNotReadyError"
       /\ SendStep /\ AfterReadyNoUrl =>
             /\ res'.err = "SaynaNotReadyError"
             /\ sent' = sent
             /\ SendLeavesSession]_vars

\* C30 witness: with an on_ready handler registered, the only frame read is
\* the ready frame without livekit_url; no handler was called, the
\* attributes are unset and send_speak was refused with SaynaNotReadyError.
ReadyWithoutUrlSendRefusedSeen ==
    /\ AfterReadyNoUrl
    /\ Len(consumed) = 1
    /\ cb["ready"] # None
    /\ invoked = <<>>
    /\ fields = NoFields
    /\ tpc[Reader] = "recv"
    /\ res.call.op = "send_speak"
    /\ res.err = "SaynaNotReadyError"
    /\ Len(sent) = 1

\* ---------------------------------------------------------------------
\* C31

\* C31: once an outbound message has been dumped and validated back, the
\* dict dumped has no key with a None value, has every field of the message
\* that is not None with the value the message has, and has nothing else;
\* the message validated back has the field values of the original; and a
\* clear message is dumped as its type alone.
EncodeRoundTrip ==
    out_decoded # Failed =>
        /\ \A k \in DOMAIN out_data : out_data[k] # None
        /\ \A k \in DOMAIN out_message :
               out_message[k] # None => k \in DOMAIN out_data /\ out_data[k] = out_message[k]
        /\ DOMAIN out_data \subseteq DOMAIN out_message
        /\ out_decoded = Decoded(out_message)
        /\ out_message.type = "clear" => DOMAIN out_data = {"type"}

\* ---------------------------------------------------------------------
\* C33

\* The invocation of the on_ready handler made in this step, if any.
ReadyInvoked ==
    /\ Len(invoked') = Len(invoked) + 1
    /\ invoked'[Len(invoked')].slot = "ready"

\* C33: when the loop reads a well-formed ready frame, ready and the
\* session attributes are set by the time the on_ready handler is entered:
\* in the state the handler starts in, ready holds, the attributes are
\* those of the frame, the handler's argument carries them, and no send
\* operation would be refused with SaynaNotReadyError (a connected session
\* writes the frame).  Ready holds in that state also when the handler is
\* a plain function that raises, and when no handler is registered; and
\* the raising of a coroutine handler leaves ready as it was.
ReadySetBeforeHandler ==
    [][/\ Reads(ReadyRoom1) =>
             /\ ready' /\ fields' = ReadyCarries(ReadyRoom1)
             /\ cb["ready"] # None <=> ReadyInvoked
             /\ ReadyInvoked =>
                   invoked'[Len(invoked')].arg.livekit_room_name = fields'.livekit_room_name
             /\ \A call \in LifeSends :
                   LET r == SendOp(call, connected', ready', wsOpen', ws')
                   IN  /\ r.err # "SaynaNotReadyError"
                       /\ connected' /\ ws' \in wsOpen' =>
                             r.err = "ok" /\ Len(r.out) = 1
       /\ \A i \in 1..MaxFrames :
             HandlerRaises(i) /\ invoked'[i].slot = "ready" /\ i <= Len(invoked) =>
                 ready' = ready]_vars

\* C33 witness: the coroutine on_ready handler entered for the frame of
\* "room-1" has raised, the session is still ready, and send_speak, called
\* while the loop was in or after the handler, wrote its frame after the
\* config message.
ReadyHandlerRaisedSendPassedSeen ==
    /\ Len(invoked) = 1
    /\ invoked[1].slot = "ready" /\ invoked[1].handler = "async_raise"
    /\ invoked[1].outcome = "raised"
    /\ connected /\ ready /\ fields = ReadyCarries(ReadyRoom1)
    /\ res.call.op = "send_speak" /\ res.err = "ok"
    /\ Len(sent) = 2 /\ sent[2].data.type = "speak"

\* ---------------------------------------------------------------------
\* C35

\* No connect() or disconnect() call is in progress.
NoCallInProgress == \A h \in HostTasks : hpc[h] = "idle"

\* C35: in every state where no connect() or disconnect() call is in
\* progress, every aiohttp session and every WebSocket that is open is the
\* one the client holds in self._session or self._ws.
NoOrphanTransport ==
    NoCallInProgress =>
        /\ sessOpen \subseteq {session}
        /\ wsOpen \subseteq {ws}

\* ---------------------------------------------------------------------
\* C36

\* A step in which the disconnect() called by a handler completes, no
\* other call of the API having been started since it began.
CallbackDisconnectEnds ==
    /\ hpc["cb"] # "idle" /\ hpc'["cb"] = "idle"
    /\ res'.host = "cb"
    /\ res'.call.op = "disconnect"
    /\ res'.n = ncalls'

\* The receive tasks whose handler has called disconnect() and returned.
Disconnectors ==
    {t \in TaskIds : \E i \in 1..Len(invoked) :
        /\ invoked[i].task = t
        /\ invoked[i].handler = "async_disconnect"
        /\ invoked[i].outcome = "returned"}

\* C36: the disconnect() a handler calls from inside the receive task,
\* when no other call is started while it runs, returns without raising, with connected and ready false, self._ws
\* cleared and the socket the task reads closed; and the loop of that task,
\* once the handler has returned, ends at its next step without calling a
\* handler.
CallbackDisconnectClean ==
    [][/\ CallbackDisconnectEnds =>
             /\ res'.err = "ok"
             /\ ~connected' /\ ~ready'
             /\ ws' = 0
             /\ \A t \in TaskIds : tpc[t] = "in_disc" => lws[t] \notin wsOpen'
       /\ \A t \in Disconnectors :
             tpc'[t] # tpc[t] => tpc'[t] = "done" /\ invoked' = invoked]_vars

\* ---------------------------------------------------------------------
\* C34

\* Receive task t ends in this step.
LoopEnds(t) == tpc[t] \in {"start", "recv", "in_cb", "in_disc"} /\ tpc'[t] = "done"

\* C34: when the receive task of a connection ends while the session is
\* connected through a socket opened by another, later successful connect()
\* (the client holds that socket, not the task's), connected and ready
\* stay as they are.
LoopExitSparesNewer ==
    [][\A t \in TaskIds :
          LoopEnds(t) /\ connected /\ ws \notin {0, t} =>
              connected' /\ ready' = ready]_vars

\* ---------------------------------------------------------------------
\* C32

\* The room the example server is asked a session for.
Room1 == <<"r", "1">>

\* C32: when the connect() that create_sayna_session awaits on its new
\* client opens the transport and returns, with the server answering the
\* config message with a ready frame, the function does not raise and the
\* sessions map holds the client under session_key(sayna_url, room_name).
CreateSessionStores ==
    [][ConnectReturns("h1") /\ res'.n = 1 =>
          LET r == CreateSaynaSession(res'.err, ready', {}, SessionKey(url, Room1))
          IN  /\ r.raises = None
              /\ SessionKey(url, Room1) \in r.stored]_vars

====
